---- MODULE Spec2Model ----
(***************************************************************************)
(* Model of ElectronViewRenderer (src/index.js, the second, complete       *)
(* definition of the module, lines 172-387): the renderer registry, the    *)
(* view-data store, the current-renderer selection, the 'ready' listeners  *)
(* that register the protocol handlers with the host, the life of each     *)
(* view request from renderTemplate to the host's callback, and the        *)
(* handler of the asset scheme.                                            *)
(***************************************************************************)
EXTENDS Integers, Sequences, FiniteSets, TLC

(***************************************************************************)
(* Bounds of the model.                                                    *)
(***************************************************************************)
MaxRequests == 1
MaxListeners == 2
MaxCallbacks == 2

(***************************************************************************)
(* JavaScript values.  Every value is a record with a type tag t; the      *)
(* primitives carry their text in v.                                       *)
(***************************************************************************)
Undefined == [t |-> "undefined", v |-> ""]
Null == [t |-> "null", v |-> ""]
Str(s) == [t |-> "string", v |-> s]
Num(s) == [t |-> "number", v |-> s]
Bool(s) == [t |-> "boolean", v |-> s]
Obj(s) == [t |-> "object", v |-> s]
Fn(s) == [t |-> "function", v |-> s]

\* ToBoolean: what `if (x)`, `x && y`, `x || y` and `!x` test.
Truthy(x) ==
    CASE x.t = "undefined" -> FALSE
      [] x.t = "null" -> FALSE
      [] x.t = "string" -> x.v # ""
      [] x.t = "number" -> x.v \notin {"0", "NaN"}
      [] x.t = "boolean" -> x.v = "true"
      [] OTHER -> TRUE

\* ToString of a primitive, as a template literal `${x}` computes it.
JsToString(x) ==
    CASE x.t = "undefined" -> "undefined"
      [] x.t = "null" -> "null"
      [] OTHER -> x.v

(***************************************************************************)
(* Strings.                                                                *)
(***************************************************************************)
\* s from position i (1-based) to its end
From(s, i) == IF i > Len(s) THEN "" ELSE SubSeq(s, i, Len(s))

\* p occurs in s at position i
MatchAt(s, i, p) == /\ i >= 1
                    /\ i + Len(p) - 1 <= Len(s)
                    /\ SubSeq(s, i, i + Len(p) - 1) = p

\* position of the first character of s at or after i that is one of cs; 0 if none
RECURSIVE FirstOf(_, _, _)
FirstOf(s, i, cs) ==
    IF i > Len(s) THEN 0
    ELSE IF SubSeq(s, i, i) \in cs THEN i
    ELSE FirstOf(s, i + 1, cs)

\* String.prototype.substr(start) for an integer start
Substr(s, start) ==
    LET b == IF start < 0 THEN (IF Len(s) + start < 0 THEN 0 ELSE Len(s) + start)
             ELSE start
    IN From(s, b + 1)

\* s.replace(/(?:\s|%20)/g, ' ')
RECURSIVE ReplaceSpaces(_)
ReplaceSpaces(s) ==
    IF s = "" THEN ""
    ELSE IF MatchAt(s, 1, "%20") THEN " " \o ReplaceSpaces(From(s, 4))
    ELSE IF SubSeq(s, 1, 1) \in {" ", "\t", "\n"} THEN " " \o ReplaceSpaces(From(s, 2))
    ELSE SubSeq(s, 1, 1) \o ReplaceSpaces(From(s, 2))

\* the escaping of a space that url.parse (autoEscape) and querystring.stringify apply
RECURSIVE EscapeSpaces(_)
EscapeSpaces(s) ==
    IF s = "" THEN ""
    ELSE IF SubSeq(s, 1, 1) = " " THEN "%20" \o EscapeSpaces(From(s, 2))
    ELSE SubSeq(s, 1, 1) \o EscapeSpaces(From(s, 2))

\* querystring.escape on the characters of the model: a space and a slash
\* are percent-encoded
RECURSIVE QsEscape(_)
QsEscape(s) ==
    IF s = "" THEN ""
    ELSE IF SubSeq(s, 1, 1) = " " THEN "%20" \o QsEscape(From(s, 2))
    ELSE IF SubSeq(s, 1, 1) = "/" THEN "%2F" \o QsEscape(From(s, 2))
    ELSE SubSeq(s, 1, 1) \o QsEscape(From(s, 2))

\* querystring.unescape on the characters of the model: '+' and %20 are a
\* space, %2F is a slash
RECURSIVE QsUnescape(_)
QsUnescape(s) ==
    IF s = "" THEN ""
    ELSE IF MatchAt(s, 1, "%20") THEN " " \o QsUnescape(From(s, 4))
    ELSE IF MatchAt(s, 1, "%2F") THEN "/" \o QsUnescape(From(s, 4))
    ELSE IF SubSeq(s, 1, 1) = "+" THEN " " \o QsUnescape(From(s, 2))
    ELSE SubSeq(s, 1, 1) \o QsUnescape(From(s, 2))

(***************************************************************************)
(* url.parse and url.format (Node's legacy URL API), on URLs of the form   *)
(* scheme://host/path?query whose only escaped character is the space.     *)
(***************************************************************************)
UrlParse(u) ==
    LET colon == FirstOf(u, 1, {":"})
        afterProto == From(u, colon + 1)
        slashes == MatchAt(afterProto, 1, "//")
        rest == IF slashes THEN From(afterProto, 3) ELSE afterProto
        hostEnd == FirstOf(rest, 1, {"/", "?", "#"})
        host == IF ~slashes THEN ""
                ELSE IF hostEnd = 0 THEN rest
                ELSE SubSeq(rest, 1, hostEnd - 1)
        tail == IF ~slashes THEN rest
                ELSE IF hostEnd = 0 THEN "" ELSE From(rest, hostEnd)
        hash == FirstOf(tail, 1, {"#"})
        noHash == IF hash = 0 THEN tail ELSE SubSeq(tail, 1, hash - 1)
        qm == FirstOf(noHash, 1, {"?"})
        rawPath == IF qm = 0 THEN noHash ELSE SubSeq(noHash, 1, qm - 1)
    IN [protocol |-> SubSeq(u, 1, colon),
        hostname |-> host,
        pathname |-> IF rawPath = "" THEN Null ELSE Str(EscapeSpaces(rawPath)),
        search |-> IF qm = 0 THEN "" ELSE From(noHash, qm + 1)]

\* querystring.parse(search)[key]: the value of the first key=value pair
\* named key, unescaped; undefined when there is none.
RECURSIVE QueryGet(_, _)
QueryGet(qs, key) ==
    IF qs = "" THEN Undefined
    ELSE LET amp == FirstOf(qs, 1, {"&"})
             pair == IF amp = 0 THEN qs ELSE SubSeq(qs, 1, amp - 1)
             more == IF amp = 0 THEN "" ELSE From(qs, amp + 1)
             eq == FirstOf(pair, 1, {"="})
             k == IF eq = 0 THEN pair ELSE SubSeq(pair, 1, eq - 1)
             val == IF eq = 0 THEN "" ELSE From(pair, eq + 1)
         IN IF QsUnescape(k) = key THEN Str(QsUnescape(val)) ELSE QueryGet(more, key)

\* url.format({pathname: view, protocol: 'view:', query: {_view: view}, slashes: true})
UrlFormat(view) ==
    LET pathname == IF view # "" /\ SubSeq(view, 1, 1) # "/" THEN "/" \o view ELSE view
    IN "view:" \o "//" \o pathname \o "?" \o "_view=" \o QsEscape(view)

(***************************************************************************)
(* path.join of the platform: the segments are joined with the platform's  *)
(* separator and normalized (empty and '.' segments dropped, '..' resolved;*)
(* win32 also takes '/' as a separator).                                   *)
(***************************************************************************)
Sep(platform) == IF platform = "win32" THEN "\\" ELSE "/"
Seps(platform) == IF platform = "win32" THEN {"\\", "/"} ELSE {"/"}

RECURSIVE Segments(_, _)
Segments(s, seps) ==
    LET cut == FirstOf(s, 1, seps)
    IN IF cut = 0 THEN <<s>>
       ELSE <<SubSeq(s, 1, cut - 1)>> \o Segments(From(s, cut + 1), seps)

RECURSIVE NormalizeSegments(_, _, _)
NormalizeSegments(segs, acc, absolute) ==
    IF segs = <<>> THEN acc
    ELSE LET h == Head(segs)
             next == IF h = "" \/ h = "." THEN acc
                     ELSE IF h = ".."
                          THEN IF acc # <<>> /\ acc[Len(acc)] # ".."
                               THEN SubSeq(acc, 1, Len(acc) - 1)
                               ELSE IF absolute THEN acc ELSE Append(acc, "..")
                     ELSE Append(acc, h)
         IN NormalizeSegments(Tail(segs), next, absolute)

RECURSIVE JoinSegments(_, _)
JoinSegments(segs, sep) ==
    IF segs = <<>> THEN ""
    ELSE IF Len(segs) = 1 THEN segs[1]
    ELSE segs[1] \o sep \o JoinSegments(Tail(segs), sep)

PathNormalize(p, platform) ==
    LET absolute == p # "" /\ SubSeq(p, 1, 1) \in Seps(platform)
        trailing == p # "" /\ SubSeq(p, Len(p), Len(p)) \in Seps(platform)
        body == JoinSegments(NormalizeSegments(Segments(p, Seps(platform)), <<>>, absolute),
                             Sep(platform))
        tailed == IF body # "" /\ trailing THEN body \o Sep(platform) ELSE body
    IN IF absolute THEN Sep(platform) \o tailed
       ELSE IF tailed = "" THEN "." ELSE tailed

RECURSIVE JoinNonEmpty(_, _)
JoinNonEmpty(parts, sep) ==
    IF parts = <<>> THEN ""
    ELSE IF Head(parts) = "" THEN JoinNonEmpty(Tail(parts), sep)
    ELSE LET more == JoinNonEmpty(Tail(parts), sep)
         IN IF more = "" THEN Head(parts) ELSE Head(parts) \o sep \o more

PathJoin(parts, platform) ==
    LET joined == JoinNonEmpty(parts, Sep(platform))
    IN IF joined = "" THEN "." ELSE PathNormalize(joined, platform)

(***************************************************************************)
(* The inputs of the model.                                                *)
(***************************************************************************)
\* view ids passed to load
ViewIds == {"home", "a b"}

\* data payloads passed to load: an object and the falsy value 0
Payloads == {Obj("{title:Hi}"), Num("0")}

\* the first argument of add
AddNames == {Str("tpl"), Str(""), Undefined}

\* the second argument of add: a descriptor with an extension, one without
\* (the parameter default applies), and no descriptor at all
AddData == {[t |-> "object", extension |-> Str(".tpl"), rendererAction |-> Fn("tplAction")],
            [t |-> "object", extension |-> Undefined, rendererAction |-> Fn("rawAction")],
            Undefined}

\* the argument of use: the built-in renderer, a name add may have
\* registered, and a name that never is
UseNames == {"ejs", "tpl", "pug"}

\* the URLs requested: one load navigates to, one without the _view key
\* and a source map requested by the page of a loaded view
RequestUrls == {UrlFormat("home"), "view:///a%20b", "view:///app.js.map?_view=home"}

\* the asset URLs requested: one without a host, one with the host css and
\* one whose file name stands in the place of the host, with no path
AssetUrls == {"asset:///main.css", "asset://css/main.css", "asset://main.css"}

\* the values of the ignoreExtensions option: the default, and a list of
\* which two entries match the same path
IgnoreLists == <<<<>>, <<".map.ejs", ".js.map.ejs", ".undefined">>>>

\* the process and the constructor's options: every pair of values of
\* process.platform, useAssets and ignoreExtensions occurs in one of them
Configs == {[platform |-> "linux", useAssets |-> FALSE, ignoreExtensions |-> IgnoreLists[1]],
            [platform |-> "linux", useAssets |-> TRUE, ignoreExtensions |-> IgnoreLists[2]],
            [platform |-> "win32", useAssets |-> FALSE, ignoreExtensions |-> IgnoreLists[2]],
            [platform |-> "win32", useAssets |-> TRUE, ignoreExtensions |-> IgnoreLists[1]]}

\* what a renderer action does when it is called: calls its completion
\* callback before it returns, throws, or returns and leaves the
\* completion to a later turn of the event loop
Behaviours == {"callback", "throw", "defer"}

(***************************************************************************)
(* The state.                                                              *)
(***************************************************************************)
VARIABLES
    platform,           \* process.platform
    useAssets,          \* this._useAssets
    ingnoreExtensions,  \* this._ingnoreExtensions
    renderers,          \* this._renderers: name -> descriptor
    currentRenderer,    \* this._currentRenderer
    views,              \* this._views: view id -> {viewData}
    ready,              \* the host has emitted 'ready'
    readyListeners,     \* number of listeners use added before 'ready' was emitted
    protocolCalls,      \* scheme -> number of register...Protocol calls
    handlers,           \* schemes whose handler the host holds
    requests,           \* the requests made so far, of the view and the asset scheme
    threw               \* what the last call of add, use or load threw ("": nothing)

vars == <<platform, useAssets, ingnoreExtensions, renderers, currentRenderer, views,
          ready, readyListeners, protocolCalls, handlers, requests, threw>>

\* the defaults of the constructor's options (lines 224-228)
viewPath == "views"
viewProtcolName == "view"
assetsPath == "assets"
assetsProtocolName == "asset"

\* obj[key] of a JavaScript object held as a function: undefined when absent
Get(obj, key) == IF key \in DOMAIN obj THEN obj[key] ELSE Undefined

\* obj[key] = value
Put(obj, key, value) ==
    [k \in DOMAIN obj \cup {key} |-> IF k = key THEN value ELSE obj[k]]

EmptyObject == [t |-> "object", name |-> Undefined, extension |-> Undefined,
                rendererAction |-> Undefined]

\* _populateEJSRenderer: add('ejs', {extension: '.ejs', rendererAction: ...})
EJSRenderer == [t |-> "object", extension |-> Str(".ejs"),
                rendererAction |-> Fn("ejsAction"), name |-> Str("ejs")]

\* the constructor
Init ==
    /\ \E c \in Configs :
          /\ platform = c.platform
          /\ useAssets = c.useAssets
          /\ ingnoreExtensions = c.ignoreExtensions
    /\ renderers = [n \in {"ejs"} |-> EJSRenderer]
    /\ currentRenderer = EmptyObject
    /\ views = [k \in {} |-> Undefined]
    /\ ready = FALSE
    /\ readyListeners = 0
    /\ protocolCalls = [s \in {viewProtcolName, assetsProtocolName} |-> 0]
    /\ handlers = {}
    /\ requests = <<>>
    /\ threw = ""

(***************************************************************************)
(* add(name, {extension = null, rendererAction})                           *)
(***************************************************************************)
AddThrows(name, data) ==
    IF data.t = "undefined" THEN "TypeError"
    ELSE IF ~Truthy(name) THEN "Error: Renderer name required"
    ELSE ""

\* add without the check of the name
add_NoNameCheck(name, data) ==
    /\ IF data.t = "undefined"
       THEN UNCHANGED renderers
       ELSE renderers' = Put(renderers, name.v,
                [t |-> "object",
                 extension |-> IF data.extension = Undefined THEN Null ELSE data.extension,
                 rendererAction |-> data.rendererAction,
                 name |-> name])
    /\ threw' = IF data.t = "undefined" THEN "TypeError" ELSE ""
    /\ UNCHANGED <<platform, useAssets, ingnoreExtensions, currentRenderer, views, ready,
                   readyListeners, protocolCalls, handlers, requests>>

add(name, data) ==
    /\ IF AddThrows(name, data) # ""
       THEN UNCHANGED renderers
       ELSE renderers' = Put(renderers, name.v,
                [t |-> "object",
                 extension |-> IF data.extension = Undefined THEN Null ELSE data.extension,
                 rendererAction |-> data.rendererAction,
                 name |-> name])
    /\ threw' = AddThrows(name, data)
    /\ UNCHANGED <<platform, useAssets, ingnoreExtensions, currentRenderer, views, ready,
                   readyListeners, protocolCalls, handlers, requests>>

(***************************************************************************)
(* load(browserWindow, view, viewData)                                     *)
(***************************************************************************)
\* load with a store that keeps the entry of the last view only
load_SingleEntry(view, viewData) ==
    /\ views' = [k \in {view} |-> [t |-> "object", viewData |-> viewData]]
    /\ threw' = ""
    /\ UNCHANGED <<platform, useAssets, ingnoreExtensions, renderers, currentRenderer, ready,
                   readyListeners, protocolCalls, handlers, requests>>

load(view, viewData) ==
    /\ views' = Put(views, view, [t |-> "object", viewData |-> viewData])
    /\ threw' = ""
    /\ UNCHANGED <<platform, useAssets, ingnoreExtensions, renderers, currentRenderer, ready,
                   readyListeners, protocolCalls, handlers, requests>>

(***************************************************************************)
(* use(name): selects the renderer and adds a 'ready' listener.  The host  *)
(* emits 'ready' once, so a listener added after it never runs and is not  *)
(* counted.                                                                *)
(***************************************************************************)
use(name) ==
    /\ ready \/ readyListeners < MaxListeners
    /\ currentRenderer' = Get(renderers, name)
    /\ readyListeners' = IF ready THEN readyListeners ELSE readyListeners + 1
    /\ threw' = ""
    /\ UNCHANGED <<platform, useAssets, ingnoreExtensions, renderers, views, ready,
                   protocolCalls, handlers, requests>>

(***************************************************************************)
(* The host emits 'ready' once: every listener added by use so far runs    *)
(* setupViewProtocol and, if useAssets, setupAssetsProtocol.  The host     *)
(* takes the first registration of a scheme and refuses the later ones,    *)
(* which the completion callbacks log.                                     *)
(***************************************************************************)
setupProtocols(calls, scheme, n) == [calls EXCEPT ![scheme] = @ + n]

\* Ready with setupAssetsProtocol called whatever useAssets is
Ready_AssetsAlways ==
    /\ ~ready
    /\ ready' = TRUE
    /\ protocolCalls' =
          setupProtocols(setupProtocols(protocolCalls, viewProtcolName, readyListeners),
                         assetsProtocolName, readyListeners)
    /\ handlers' = {s \in DOMAIN protocolCalls : protocolCalls'[s] > 0}
    /\ UNCHANGED <<platform, useAssets, ingnoreExtensions, renderers, currentRenderer, views,
                   readyListeners, requests, threw>>

Ready ==
    /\ ~ready
    /\ ready' = TRUE
    /\ protocolCalls' =
          LET viewDone == setupProtocols(protocolCalls, viewProtcolName, readyListeners)
          IN IF useAssets
             THEN setupProtocols(viewDone, assetsProtocolName, readyListeners)
             ELSE viewDone
    /\ handlers' = {s \in DOMAIN protocolCalls : protocolCalls'[s] > 0}
    /\ UNCHANGED <<platform, useAssets, ingnoreExtensions, renderers, currentRenderer, views,
                   readyListeners, requests, threw>>

(***************************************************************************)
(* parseFilePath(urlString): the pathname of the URL, without its first    *)
(* character on win32, spaces decoded.  Reading a property of the null     *)
(* pathname of a URL without a path throws.                                *)
(***************************************************************************)
parseFilePathThrows(urlString) == UrlParse(urlString).pathname = Null

\* parseFilePath that leaves the first character on every platform
parseFilePath_NeverStrips(urlString, plat) ==
    ReplaceSpaces(UrlParse(urlString).pathname.v)

parseFilePath(urlString, plat) ==
    LET pathname == UrlParse(urlString).pathname.v
        fileName == IF plat = "win32" THEN Substr(pathname, 1) ELSE pathname
    IN ReplaceSpaces(fileName)

(***************************************************************************)
(* renderTemplate(request), lines 289-294: what the request reads.         *)
(***************************************************************************)
\* const extension = renderer.extension || `.${renderer.name}`
ExtensionOf(renderer) ==
    IF Truthy(renderer.extension) THEN renderer.extension.v
    ELSE "." \o JsToString(renderer.name)

\* const filePath = path.join(this.viewPath, `${fileName}${extension}`)
FilePathOf(renderer, urlString, plat) ==
    PathJoin(<<viewPath, parseFilePath(urlString, plat) \o ExtensionOf(renderer)>>, plat)

\* parsedUrl.query._view as a property key
ViewKey(urlString) == JsToString(QueryGet(UrlParse(urlString).search, "_view"))

\* the query parameters of the URL as an object (parsedUrl.query)
RawQuery(urlString) == Obj("query " \o UrlParse(urlString).search)

\* ViewDataOf with an empty object in place of undefined
ViewDataOf_EmptyObject(store, urlString) ==
    LET entry == Get(store, ViewKey(urlString))
    IN IF Truthy(entry) /\ Truthy(entry.viewData) THEN entry.viewData ELSE Obj("{}")

\* ViewDataOf falling back on the query parameters, as the first definition
\* of renderTemplate (line 128) passes them
ViewDataOf_QueryFallback(store, urlString) ==
    LET entry == Get(store, ViewKey(urlString))
    IN IF Truthy(entry) /\ Truthy(entry.viewData) THEN entry.viewData
       ELSE RawQuery(urlString)

\* (this._views[k] && this._views[k].viewData) ? this._views[k].viewData : undefined
ViewDataOf(store, urlString) ==
    LET entry == Get(store, ViewKey(urlString))
    IN IF Truthy(entry) /\ Truthy(entry.viewData) THEN entry.viewData ELSE Undefined

\* filePath.substr(filePath.length - ext.length) === ext
EndsWith(filePath, ext) == Substr(filePath, Len(filePath) - Len(ext)) = ext

\* the entries of the ignore list that match, each of which calls resolve
IgnoreMatches(list, filePath) == {i \in 1..Len(list) : EndsWith(filePath, list[i])}

\* new Buffer(string)
Buffer(string) == [t |-> "Buffer", v |-> string]

\* the string a renderer action hands to its completion callback
Html(action, filePath, viewData) ==
    "<" \o action.v \o " " \o filePath \o " " \o viewData.t \o ":" \o viewData.v \o ">"

\* how often an action calls its completion callback at most: the built-in
\* action calls it from ejs.renderFile's single completion
CallbackLimit(action) == IF action = Fn("ejsAction") THEN 1 ELSE MaxCallbacks

(***************************************************************************)
(* A request: the promise of renderTemplate and, for a request the host    *)
(* dispatched, the reactions setupViewProtocol attached to it.             *)
(***************************************************************************)
\* NewRequest with the descriptor the registry holds under the selected name
NewRequest_ByName(url, viaHost) ==
    [scheme |-> viewProtcolName, url |-> url, viaHost |-> viaHost,
     renderer |-> IF currentRenderer.t = "object" /\ currentRenderer.name.t = "string"
                  THEN Get(renderers, currentRenderer.name.v)
                  ELSE currentRenderer,
     fileName |-> Undefined,
     filePath |-> Undefined, viewData |-> Undefined, invoked |-> 0,
     resolveCalls |-> 0, callbacks |-> 0, rendered |-> Undefined,
     outcome |-> "pending", mimeType |-> "", data |-> Undefined, error |-> "",
     hostCallbacks |-> 0, logged |-> 0, uncaught |-> 0, live |-> FALSE, failed |-> FALSE]

NewRequest(url, viaHost) ==
    [scheme |-> viewProtcolName, url |-> url, viaHost |-> viaHost,
     renderer |-> currentRenderer, fileName |-> Undefined,
     filePath |-> Undefined, viewData |-> Undefined, invoked |-> 0,
     resolveCalls |-> 0, callbacks |-> 0, rendered |-> Undefined,
     outcome |-> "pending", mimeType |-> "", data |-> Undefined, error |-> "",
     hostCallbacks |-> 0, logged |-> 0, uncaught |-> 0, live |-> FALSE, failed |-> FALSE]

\* resolve whose every call reaches the host, settled promise or not
resolve_EveryCall(r, body) ==
    [r EXCEPT !.outcome = "resolved", !.mimeType = "text/html", !.data = Buffer(body),
              !.resolveCalls = @ + 1,
              !.hostCallbacks = IF r.viaHost THEN @ + 1 ELSE @]

\* resolve that answers every request with the empty body of an ignored path
resolve_EmptyBody(r, body) ==
    IF r.outcome = "pending"
    THEN [r EXCEPT !.outcome = "resolved", !.mimeType = "text/html", !.data = Buffer(""),
                   !.resolveCalls = @ + 1,
                   !.hostCallbacks = IF r.viaHost THEN @ + 1 ELSE @]
    ELSE [r EXCEPT !.resolveCalls = @ + 1]

\* resolve(value): settles a pending promise; then(callback) runs for the host
resolve(r, body) ==
    IF r.outcome = "pending"
    THEN [r EXCEPT !.outcome = "resolved", !.mimeType = "text/html", !.data = Buffer(body),
                   !.resolveCalls = @ + 1,
                   !.hostCallbacks = IF r.viaHost THEN @ + 1 ELSE @]
    ELSE [r EXCEPT !.resolveCalls = @ + 1]

\* reject that also answers the host, with the error as the response
reject_AnswersHost(r, ex) ==
    IF r.outcome = "pending"
    THEN [r EXCEPT !.outcome = "rejected", !.error = ex,
                   !.logged = IF r.viaHost THEN @ + 1 ELSE @,
                   !.hostCallbacks = IF r.viaHost THEN @ + 1 ELSE @]
    ELSE r

\* reject(ex): settles a pending promise; catch(log.error) runs for the host
reject(r, ex) ==
    IF r.outcome = "pending"
    THEN [r EXCEPT !.outcome = "rejected", !.error = ex,
                   !.logged = IF r.viaHost THEN @ + 1 ELSE @]
    ELSE r

RECURSIVE resolveTimes(_, _, _)
resolveTimes(r, body, n) == IF n = 0 THEN r ELSE resolveTimes(resolve(r, body), body, n - 1)

\* the renderer action is called with (filePath, viewData, callback)
InvokeAction(r, behaviour) ==
    LET called == [r EXCEPT !.invoked = @ + 1]
        html == Html(r.renderer.rendererAction, r.filePath.v, r.viewData)
    IN CASE behaviour = "callback" ->
                resolve([called EXCEPT !.callbacks = @ + 1, !.rendered = Str(html),
                                       !.live = TRUE], html)
         [] behaviour = "throw" ->
                reject([called EXCEPT !.failed = TRUE], "Error: render failed")
         [] OTHER -> [called EXCEPT !.live = TRUE]

\* Dispatch without the ignore list
Dispatch_NoIgnore(r, filePath, behaviour) ==
    IF r.renderer.rendererAction.t # "function"
    THEN reject(r, "TypeError")
    ELSE InvokeAction(r, behaviour)

\* lines 298-320: the ignore list, then the renderer action
Dispatch(r, filePath, behaviour) ==
    IF Len(ingnoreExtensions) > 0 /\ IgnoreMatches(ingnoreExtensions, filePath) # {}
    THEN resolveTimes(r, "", Cardinality(IgnoreMatches(ingnoreExtensions, filePath)))
    ELSE IF r.renderer.rendererAction.t # "function"
    THEN reject(r, "TypeError")
    ELSE InvokeAction(r, behaviour)

\* the executor of the promise, lines 288-324: an exception thrown before
\* the renderer action returns rejects the promise
renderTemplate(url, viaHost, behaviour) ==
    IF parseFilePathThrows(url)
    THEN reject(NewRequest(url, viaHost), "TypeError")
    ELSE IF currentRenderer.t = "undefined"
    THEN reject([NewRequest(url, viaHost) EXCEPT
                    !.fileName = Str(parseFilePath(url, platform))], "TypeError")
    ELSE CHOOSE settled \in
            {Dispatch([NewRequest(url, viaHost) EXCEPT
                           !.fileName = Str(parseFilePath(url, platform)),
                           !.filePath = Str(filePath),
                           !.viewData = viewData],
                      filePath, behaviour) :
                 filePath \in {FilePathOf(currentRenderer, url, platform)},
                 viewData \in {ViewDataOf(views, url)}} : TRUE

\* the application calls renderTemplate itself
DirectRequest(url, behaviour) ==
    /\ Len(requests) < MaxRequests
    /\ requests' = Append(requests, renderTemplate(url, FALSE, behaviour))
    /\ UNCHANGED <<platform, useAssets, ingnoreExtensions, renderers, currentRenderer, views,
                   ready, readyListeners, protocolCalls, handlers, threw>>

\* the host calls the handler setupViewProtocol registered
HostRequest(url, behaviour) ==
    /\ viewProtcolName \in handlers
    /\ Len(requests) < MaxRequests
    /\ requests' = Append(requests, renderTemplate(url, TRUE, behaviour))
    /\ UNCHANGED <<platform, useAssets, ingnoreExtensions, renderers, currentRenderer, views,
                   ready, readyListeners, protocolCalls, handlers, threw>>

\* a renderer action that returned calls its completion callback later
RendererCallback(i) ==
    /\ requests[i].live
    /\ requests[i].callbacks < CallbackLimit(requests[i].renderer.rendererAction)
    /\ LET r == requests[i]
           html == Html(r.renderer.rendererAction, r.filePath.v, r.viewData)
       IN requests' = [requests EXCEPT ![i] =
              resolve([r EXCEPT !.callbacks = @ + 1, !.rendered = Str(html)], html)]
    /\ UNCHANGED <<platform, useAssets, ingnoreExtensions, renderers, currentRenderer, views,
                   ready, readyListeners, protocolCalls, handlers, threw>>

\* a timeout in the place of the later failure: the pending request is rejected
RendererThrowsLater_Timeout(i) ==
    /\ requests[i].live
    /\ requests[i].callbacks = 0
    /\ requests' = [requests EXCEPT ![i] = reject([@ EXCEPT !.live = FALSE], "Timeout")]
    /\ UNCHANGED <<platform, useAssets, ingnoreExtensions, renderers, currentRenderer, views,
                   ready, readyListeners, protocolCalls, handlers, threw>>

\* a renderer action that returned fails later: the built-in action throws
\* inside the completion of ejs.renderFile (line 363), outside the try of
\* renderTemplate, so nothing catches the exception
RendererThrowsLater(i) ==
    /\ requests[i].live
    /\ requests[i].callbacks = 0
    /\ requests' = [requests EXCEPT ![i] =
           [@ EXCEPT !.uncaught = @ + 1, !.failed = TRUE, !.live = FALSE]]
    /\ UNCHANGED <<platform, useAssets, ingnoreExtensions, renderers, currentRenderer, views,
                   ready, readyListeners, protocolCalls, handlers, threw>>

(***************************************************************************)
(* The handler setupAssetsProtocol registers, lines 338-342: the host name *)
(* and the file name of the URL are joined to the assets path and handed   *)
(* to the host's callback.  No promise and no try surround it: when        *)
(* parseFilePath throws, the exception leaves the handler and the callback *)
(* is not called.                                                          *)
(***************************************************************************)
\* path.join(this.assetsPath, hostName, fileName)
AssetPathOf(urlString, plat) ==
    PathJoin(<<assetsPath, UrlParse(urlString).hostname, parseFilePath(urlString, plat)>>, plat)

\* the life of an asset request, from the handler's call to its return
assetHandler(url) ==
    LET r == [NewRequest(url, TRUE) EXCEPT !.scheme = assetsProtocolName,
                                           !.renderer = Undefined]
    IN IF parseFilePathThrows(url)
       THEN [r EXCEPT !.outcome = "threw", !.error = "TypeError", !.uncaught = 1]
       ELSE [r EXCEPT !.outcome = "answered",
                      !.fileName = Str(parseFilePath(url, platform)),
                      !.filePath = Str(AssetPathOf(url, platform)),
                      !.data = [t |-> "path", v |-> AssetPathOf(url, platform)],
                      !.hostCallbacks = 1]

\* the host calls the handler setupAssetsProtocol registered
AssetRequest(url) ==
    /\ assetsProtocolName \in handlers
    /\ Len(requests) < MaxRequests
    /\ requests' = Append(requests, assetHandler(url))
    /\ UNCHANGED <<platform, useAssets, ingnoreExtensions, renderers, currentRenderer, views,
                   ready, readyListeners, protocolCalls, handlers, threw>>

Next ==
    \/ \E name \in AddNames, data \in AddData : add(name, data)
    \/ \E view \in ViewIds, viewData \in Payloads : load(view, viewData)
    \/ \E name \in UseNames : use(name)
    \/ Ready
    \/ \E url \in RequestUrls, b \in Behaviours : DirectRequest(url, b)
    \/ \E url \in RequestUrls, b \in Behaviours : HostRequest(url, b)
    \/ \E url \in AssetUrls : AssetRequest(url)
    \/ \E i \in 1..Len(requests) : RendererCallback(i)
    \/ \E i \in 1..Len(requests) : RendererThrowsLater(i)

Spec == Init /\ [][Next]_vars

(***************************************************************************)
(* Path resolution on its own: views of a wider set of ids are loaded and  *)
(* the URL load builds for each is requested.                              *)
(***************************************************************************)
\* view ids made of letters, '.', '_' and path separators
PlainPaths == {"home", "index.page", "admin/users", "a_b", "/home"}

PathNext ==
    \/ \E view \in PlainPaths : load(view, Obj("{title:Hi}"))
    \/ use("ejs")
    \/ \E view \in DOMAIN views, b \in Behaviours : DirectRequest(UrlFormat(view), b)
    \/ \E i \in 1..Len(requests) : RendererCallback(i)

PathSpec == Init /\ [][PathNext]_vars

(***************************************************************************)
(* Vocabulary of the properties.                                           *)
(***************************************************************************)
\* the step is a call of renderTemplate, by the host or by the application
RequestStep ==
    /\ Len(requests') = Len(requests) + 1
    /\ requests'[Len(requests')].scheme = viewProtcolName

\* the request of that call, as the call leaves it
Latest == requests'[Len(requests')]

\* the step is a call of the asset handler by the host
AssetStep ==
    /\ Len(requests') = Len(requests) + 1
    /\ requests'[Len(requests')].scheme = assetsProtocolName

\* the view requests made so far
ViewRequests == {i \in 1..Len(requests) : requests[i].scheme = viewProtcolName}

\* a renderer is selected: use was called with a registered name
Active(renderer) == renderer.t = "object" /\ renderer # EmptyObject

\* the request got the empty successful response of an ignored path
EmptyResponse(r) ==
    /\ r.outcome = "resolved"
    /\ r.mimeType = "text/html"
    /\ r.data = Buffer("")
    /\ r.invoked = 0

\* the descriptors registered
Registered == {renderers[n] : n \in DOMAIN renderers}

(***************************************************************************)
(* C1.  After load(window, v, d), a request whose URL carries _view=v      *)
(* hands the renderer action exactly d as its view data, whatever d is,    *)
(* falsy payloads included: whenever a request invokes the action and the  *)
(* store holds an entry for its _view key, the action's view data is the   *)
(* payload of that entry.                                                  *)
(***************************************************************************)
C1_StoredDataDelivered ==
    [][(RequestStep /\ Latest.invoked = 1 /\ ViewKey(Latest.url) \in DOMAIN views)
         => Latest.viewData = views[ViewKey(Latest.url)].viewData]_vars

C3_UseChecksName ==
    [][\A name \in UseNames :
          use(name) =>
             IF Get(renderers, name) = Undefined
             THEN threw' # "" /\ currentRenderer' = currentRenderer
             ELSE threw' = "" /\ currentRenderer' = renderers[name]]_vars

(***************************************************************************)
(* C4.  add(name, descriptor) with an empty or absent name throws and      *)
(* leaves the registry unchanged; with a non-empty name it inserts or      *)
(* replaces exactly the entry keyed by name, with the descriptor's         *)
(* extension (null when absent), its action and the name, and leaves every *)
(* other entry unchanged.                                                  *)
(***************************************************************************)
C4_AddFrame ==
    [][\A name \in AddNames, data \in AddData :
          add(name, data) =>
             IF ~Truthy(name)
             THEN threw' # "" /\ renderers' = renderers
             ELSE data.t = "object" =>
                    /\ threw' = ""
                    /\ DOMAIN renderers' = DOMAIN renderers \cup {name.v}
                    /\ renderers'[name.v].name = name
                    /\ renderers'[name.v].rendererAction = data.rendererAction
                    /\ renderers'[name.v].extension =
                          (IF data.extension = Undefined THEN Null ELSE data.extension)
                    /\ \A other \in DOMAIN renderers \ {name.v} :
                          renderers'[other] = renderers[other]]_vars

C4_Witness ==
    /\ threw = "Error: Renderer name required"
    /\ DOMAIN renderers = {"ejs", "tpl"}
    /\ renderers["ejs"] = EJSRenderer
    /\ renderers["tpl"].extension = Null

(***************************************************************************)
(* C5.  A request whose candidate path ends with a suffix of the ignore    *)
(* list gets the empty successful text/html response and the renderer      *)
(* action is not invoked, whatever the renderer state: never activated,    *)
(* activated, or after use of an unregistered name.  Stated for the        *)
(* requests whose candidate path is ignored under every selection the      *)
(* dispatcher can hold at that moment.                                     *)
(***************************************************************************)
C5_IgnoredWhateverRenderer ==
    [][(/\ RequestStep
        /\ \A renderer \in Registered \cup {EmptyObject}
                              \cup {r \in {currentRenderer} : r.t = "object"} :
              IgnoreMatches(ingnoreExtensions,
                            FilePathOf(renderer, Latest.url, platform)) # {})
         => EmptyResponse(Latest)]_vars

(***************************************************************************)
(* C6.  After use of a registered name, a request for a view id that was   *)
(* never passed to load gives the renderer action undefined view data and  *)
(* does not fail for the lack of data: the action is invoked unless the    *)
(* path is ignored, and the request is rejected only if the action itself  *)
(* throws.                                                                 *)
(***************************************************************************)
C6_MissingDataIsUndefined ==
    [][(/\ RequestStep
        /\ Active(currentRenderer)
        /\ ViewKey(Latest.url) \notin DOMAIN views)
         => /\ Latest.viewData = Undefined
            /\ Latest.invoked = 1 \/ EmptyResponse(Latest)
            /\ Latest.invoked = 1 =>
                  IgnoreMatches(ingnoreExtensions, Latest.filePath.v) = {}
            /\ Latest.outcome = "rejected" => Latest.failed]_vars

C6_Witness ==
    \E i \in 1..Len(requests) :
        /\ Active(requests[i].renderer)
        /\ ViewKey(requests[i].url) \notin DOMAIN views
        /\ requests[i].invoked = 1
        /\ requests[i].viewData = Undefined
        /\ requests[i].outcome = "resolved"

(***************************************************************************)
(* C7.  Whenever the renderer action fails for a request, also when the    *)
(* failure is raised inside the asynchronous completion of the built-in    *)
(* EJS renderer, the request's outcome becomes rejected.                   *)
(***************************************************************************)
C7_FailureRejects ==
    \A i \in 1..Len(requests) : requests[i].failed => requests[i].outcome = "rejected"

(***************************************************************************)
(* C8.  The raw query parameters are passed to the renderer as view data   *)
(* when no view-data entry exists for the _view key; when _view names a    *)
(* stored entry, the stored data is passed instead.                        *)
(***************************************************************************)
C8_QueryWhenNoEntry ==
    [][(RequestStep /\ Latest.invoked = 1)
         => IF ViewKey(Latest.url) \in DOMAIN views
            THEN Latest.viewData = views[ViewKey(Latest.url)].viewData
            ELSE Latest.viewData = RawQuery(Latest.url)]_vars

\* C8 as amended: the raw query parameters are never passed to the renderer.
\* With no entry for the _view key the renderer gets undefined; when _view
\* names a stored entry it gets the stored payload if that is truthy and
\* undefined otherwise.
C8_NeverQuery ==
    [][(RequestStep /\ Latest.invoked = 1)
         => /\ Latest.viewData # RawQuery(Latest.url)
            /\ IF ViewKey(Latest.url) \in DOMAIN views
                  /\ Truthy(views[ViewKey(Latest.url)].viewData)
               THEN Latest.viewData = views[ViewKey(Latest.url)].viewData
               ELSE Latest.viewData = Undefined]_vars

C8_Witness ==
    \E i \in 1..Len(requests) :
        /\ requests[i].invoked = 1
        /\ UrlParse(requests[i].url).search # ""
        /\ ViewKey(requests[i].url) \in DOMAIN views
        /\ requests[i].viewData = Obj("{title:Hi}")
        /\ requests[i].viewData = views[ViewKey(requests[i].url)].viewData

(***************************************************************************)
(* C9.  Once use has made a registered descriptor the current renderer,    *)
(* the dispatcher stays Active: no later add, use, load or request leaves  *)
(* it without a usable current renderer.                                   *)
(***************************************************************************)
C9_ActiveForever == [][Active(currentRenderer) => Active(currentRenderer')]_vars

(***************************************************************************)
(* C10.  No scheme handler is registered before the host's ready signal;   *)
(* after use followed by the ready signal the view-scheme handler is       *)
(* registered, and the asset-scheme handler is registered if and only if   *)
(* useAssets is true.                                                      *)
(***************************************************************************)
C10_RegisteredOnReady ==
    /\ ~ready => handlers = {} /\ \A s \in DOMAIN protocolCalls : protocolCalls[s] = 0
    /\ (ready /\ readyListeners > 0) =>
          /\ viewProtcolName \in handlers
          /\ assetsProtocolName \in handlers <=> useAssets

C10_Witness ==
    /\ ready
    /\ readyListeners > 0
    /\ ~useAssets
    /\ handlers = {viewProtcolName}

(***************************************************************************)
(* C11.  Asset resolution composes assetsRoot / host / path: an asset URL  *)
(* with an empty host resolves to assetsRoot/relativePath, one with host h *)
(* to assetsRoot/h/relativePath, and the handler answers every asset       *)
(* request with exactly one {path} response, without invoking a renderer.  *)
(***************************************************************************)
\* the path of the URL after its host, without the leading slash
RelativePath(urlString) ==
    LET pathname == UrlParse(urlString).pathname
    IN IF pathname = Null THEN "" ELSE ReplaceSpaces(Substr(pathname.v, 1))

\* assetsRoot / host / relativePath, written with the platform's separator
ComposedAssetPath(urlString, plat) ==
    LET host == UrlParse(urlString).hostname
    IN JoinNonEmpty(<<assetsPath, host, RelativePath(urlString)>>, Sep(plat))

C11_AssetAnswered ==
    [][AssetStep =>
          /\ Latest.outcome = "answered"
          /\ Latest.hostCallbacks = 1
          /\ Latest.invoked = 0
          /\ Latest.data = [t |-> "path", v |-> ComposedAssetPath(Latest.url, platform)]]_vars

\* the composition alone, on the asset requests the handler answered
C11_ComposedWhenAnswered ==
    \A i \in 1..Len(requests) :
        (requests[i].scheme = assetsProtocolName /\ requests[i].outcome = "answered")
            => requests[i].data.v = ComposedAssetPath(requests[i].url, platform)

(***************************************************************************)
(* C12.  In any interleaving of load calls and requests for the same view  *)
(* id, the data a render receives is the value last written by load before *)
(* the request's synchronous read step, and a load issued while the render *)
(* is in flight does not change the data that render was given: the        *)
(* completion that follows renders the data the request read.              *)
(***************************************************************************)
\* no step changes the data a request has read, and a completion renders it
InFlightKeepsData ==
    \A i \in ViewRequests :
        /\ requests'[i].viewData = requests[i].viewData
        /\ requests'[i].callbacks > requests[i].callbacks =>
              requests'[i].rendered = Str(Html(requests[i].renderer.rendererAction,
                                               requests[i].filePath.v,
                                               requests[i].viewData))

C12_ReadsLastWrite ==
    [][/\ (RequestStep /\ Latest.invoked = 1 /\ ViewKey(Latest.url) \in DOMAIN views)
            => Latest.viewData = views[ViewKey(Latest.url)].viewData
       /\ InFlightKeepsData]_vars

\* the in-flight part alone
C12_InFlightKeepsData == [][InFlightKeepsData]_vars

\* a render in flight whose view id was loaded again with other data
C12_InFlightOverwritten ==
    \E i \in ViewRequests :
        /\ requests[i].outcome = "resolved"
        /\ requests[i].callbacks = 1
        /\ requests[i].viewData = Obj("{title:Hi}")
        /\ ViewKey(requests[i].url) \in DOMAIN views
        /\ views[ViewKey(requests[i].url)].viewData = Num("0")
        /\ requests[i].rendered =
              Str(Html(requests[i].renderer.rendererAction, requests[i].filePath.v,
                       Obj("{title:Hi}")))

(***************************************************************************)
(* C13.  The key set of the view-data store is exactly the set of view ids *)
(* ever passed to load: the store starts empty, load(v, d) writes the      *)
(* entry of v and leaves every other entry as it was, and no other         *)
(* operation (request, add, use, the ready signal) adds, removes or        *)
(* changes an entry.                                                       *)
(***************************************************************************)
C13_StoreKeys ==
    /\ DOMAIN views = {}
    /\ [][/\ \A v \in ViewIds, d \in Payloads :
                load(v, d) =>
                   /\ DOMAIN views' = DOMAIN views \cup {v}
                   /\ views'[v].viewData = d
                   /\ \A other \in DOMAIN views \ {v} : views'[other] = views[other]
          /\ (~ \E v \in ViewIds, d \in Payloads : load(v, d)) => views' = views]_vars

\* one id loaded, the other never, and a request made
C13_Witness ==
    /\ DOMAIN views = {"home"}
    /\ views["home"].viewData = Num("0")
    /\ Len(requests) = 1
    /\ Active(currentRenderer)

(***************************************************************************)
(* C14.  For every view request the host dispatched whose outcome is       *)
(* rejected, the error is logged and the host's response callback is never *)
(* invoked; the host's callback is invoked only for requests whose outcome *)
(* is resolved.                                                            *)
(***************************************************************************)
C14_RejectedLoggedUnanswered ==
    \A i \in ViewRequests :
        requests[i].viaHost =>
            /\ requests[i].outcome = "rejected" =>
                  requests[i].logged = 1 /\ requests[i].hostCallbacks = 0
            /\ requests[i].hostCallbacks > 0 => requests[i].outcome = "resolved"

\* a request of the host whose renderer action threw
C14_Witness ==
    \E i \in ViewRequests :
        /\ requests[i].viaHost
        /\ requests[i].invoked = 1
        /\ requests[i].outcome = "rejected"
        /\ requests[i].error = "Error: render failed"
        /\ requests[i].logged = 1
        /\ requests[i].hostCallbacks = 0

(***************************************************************************)
(* C15.  Every successful response to a view request whose path is not     *)
(* ignored has the MIME type text/html and a body that is exactly the      *)
(* string the renderer action passed to its completion callback: the       *)
(* rendering of the request's file path and view data by the action of the *)
(* renderer selected when the request was made.                            *)
(***************************************************************************)
C15_BodyIsRendering ==
    \A i \in ViewRequests :
        (requests[i].outcome = "resolved" /\ requests[i].invoked = 1) =>
            /\ requests[i].mimeType = "text/html"
            /\ requests[i].rendered.t = "string"
            /\ requests[i].data = Buffer(requests[i].rendered.v)
            /\ requests[i].rendered.v = Html(requests[i].renderer.rendererAction,
                                             requests[i].filePath.v, requests[i].viewData)

\* renderer tpl, stored data {title:Hi}, request view:///home?_view=home
C15_Witness ==
    \E i \in ViewRequests :
        /\ requests[i].url = UrlFormat("home")
        /\ requests[i].outcome = "resolved"
        /\ requests[i].invoked = 1
        /\ requests[i].renderer.rendererAction = Fn("tplAction")
        /\ requests[i].viewData = Obj("{title:Hi}")
        /\ requests[i].mimeType = "text/html"
        /\ requests[i].data =
              Buffer(Html(Fn("tplAction"),
                          PathJoin(<<viewPath, "home.tpl">>, platform), Obj("{title:Hi}")))

(***************************************************************************)
(* C16.  A view request whose path is not ignored and whose renderer       *)
(* action did not throw before it returned stays pending as long as the    *)
(* action has not called its completion callback: it is neither resolved   *)
(* nor rejected, nothing is logged and the host's callback is not invoked, *)
(* whatever else happens; no timeout or cancellation ends it.              *)
(***************************************************************************)
\* the renderer action of request i threw before it returned
ThrewSynchronously(i) == requests[i].failed /\ requests[i].uncaught = 0

C16_PendingWithoutCallback ==
    \A i \in ViewRequests :
        (/\ requests[i].invoked = 1
         /\ requests[i].callbacks = 0
         /\ ~ThrewSynchronously(i))
            => /\ requests[i].outcome = "pending"
               /\ requests[i].hostCallbacks = 0
               /\ requests[i].logged = 0

\* a request of the host left pending by an action that threw after it returned
C16_Witness ==
    \E i \in ViewRequests :
        /\ requests[i].viaHost
        /\ requests[i].invoked = 1
        /\ requests[i].callbacks = 0
        /\ requests[i].uncaught = 1
        /\ ~requests[i].live
        /\ requests[i].outcome = "pending"

(***************************************************************************)
(* C17.  Path resolution round-trips: for every path p with no special     *)
(* characters, resolving the URL that load builds for p (url.format with   *)
(* pathname p, protocol view:, slashes true) yields exactly p.             *)
(***************************************************************************)
C17_RoundTrip ==
    [][\A p \in PlainPaths :
          (RequestStep /\ Latest.url = UrlFormat(p)) => Latest.fileName = Str(p)]_vars

\* p with a leading slash
Slashed(p) == IF MatchAt(p, 1, "/") THEN p ELSE "/" \o p

\* C17 as amended: resolving the URL that load builds for p yields p with a
\* leading slash, and on win32 p without a leading slash; joined to the view
\* root with the extension, the result is the path p itself gives.
C17_RoundTripUpToSlash ==
    [][\A p \in PlainPaths :
          (RequestStep /\ Latest.url = UrlFormat(p)) =>
             /\ Latest.fileName =
                   Str(IF platform = "win32" THEN Substr(Slashed(p), 1) ELSE Slashed(p))
             /\ Latest.filePath =
                   Str(PathJoin(<<viewPath, p \o ExtensionOf(Latest.renderer)>>, platform))]_vars

\* on win32 the id admin/users comes back as it was given
C17_Witness ==
    \E i \in ViewRequests :
        /\ platform = "win32"
        /\ requests[i].url = UrlFormat("admin/users")
        /\ requests[i].fileName = Str("admin/users")
        /\ requests[i].filePath = Str("views\\admin\\users.ejs")

(***************************************************************************)
(* C18.  The host's response callback is invoked at most once per view     *)
(* request, also when several suffixes of the ignore list match the same   *)
(* candidate path and when the renderer action calls its completion        *)
(* callback more than once.                                                *)
(***************************************************************************)
C18_AnsweredAtMostOnce ==
    \A i \in ViewRequests : requests[i].hostCallbacks <= 1

\* two suffixes of the ignore list match the path: resolve is called twice
C18_Witness ==
    \E i \in ViewRequests :
        /\ requests[i].viaHost
        /\ Cardinality(IgnoreMatches(ingnoreExtensions, requests[i].filePath.v)) = 2
        /\ requests[i].resolveCalls = 2
        /\ requests[i].hostCallbacks = 1

\* the renderer action called its completion callback twice
C18_CalledBackTwice ==
    \E i \in ViewRequests :
        /\ requests[i].viaHost
        /\ requests[i].callbacks = 2
        /\ requests[i].resolveCalls = 2
        /\ requests[i].hostCallbacks = 1

(***************************************************************************)
(* C19.  Registering a descriptor again with add under the name of the     *)
(* active renderer does not change the descriptor later requests use:      *)
(* only use changes the selection, and a request is served with the        *)
(* descriptor the last use call selected, its extension and its action.    *)
(***************************************************************************)
C19_KeepsSelectedDescriptor ==
    [][/\ currentRenderer' # currentRenderer => \E name \in UseNames : use(name)
       /\ (RequestStep /\ Active(currentRenderer)) =>
             /\ Latest.renderer = currentRenderer
             /\ Latest.filePath = Str(FilePathOf(currentRenderer, Latest.url, platform))
             /\ Latest.rendered # Undefined =>
                   Latest.rendered = Str(Html(currentRenderer.rendererAction,
                                              Latest.filePath.v, Latest.viewData))]_vars

\* a request served with the descriptor of tpl that use selected, after add
\* put another descriptor under that name
C19_Witness ==
    \E i \in ViewRequests :
        /\ requests[i].invoked = 1
        /\ requests[i].renderer.name = Str("tpl")
        /\ requests[i].renderer.rendererAction = Fn("tplAction")
        /\ renderers["tpl"].rendererAction = Fn("rawAction")
        /\ requests[i].rendered.t = "string"
        /\ requests[i].rendered.v = Html(Fn("tplAction"), requests[i].filePath.v,
                                         requests[i].viewData)
        /\ EndsWith(requests[i].filePath.v, ".tpl")

(***************************************************************************)
(* C20.  For any number of use calls made before the host's ready signal,  *)
(* registration of the view scheme, and of the asset scheme when useAssets *)
(* is true, is attempted exactly once when the host becomes ready.         *)
(***************************************************************************)
C20_RegisteredOnce ==
    (ready /\ readyListeners > 0) =>
        /\ protocolCalls[viewProtcolName] = 1
        /\ protocolCalls[assetsProtocolName] = (IF useAssets THEN 1 ELSE 0)

\* the attempts made: one of each scheme for every use call before the signal
C20_RegisteredPerUse ==
    /\ ~ready => \A s \in DOMAIN protocolCalls : protocolCalls[s] = 0
    /\ ready =>
          /\ protocolCalls[viewProtcolName] = readyListeners
          /\ protocolCalls[assetsProtocolName] = (IF useAssets THEN readyListeners ELSE 0)

====
